---- MODULE Spec2Model ----
(***************************************************************************)
(* Model of tailscale-dns-sync (src/main.go): a daemon that, on a ticker,  *)
(* reconciles the records of a Cloudflare zone carrying the comment        *)
(* "_tailscale" with the hosts of the tailscale status read at startup.    *)
(*                                                                         *)
(* Strings that the program splits, lowercases or concatenates are         *)
(* modelled as sequences of one-character strings, so that getName and     *)
(* the name of a created record are computed as the code computes them.    *)
(***************************************************************************)
EXTENDS Integers, Sequences, FiniteSets, TLC

\* ------------------------------------------------------------------ bounds
\* Number of reconciliation cycles (calls of sync) explored.
MaxCycles == 2
\* Number of peer entries of a tailscale status.
MaxPeers == 2
\* Number of records the zone holds when the daemon starts.
MaxInitRecords == 2
\* Number of times the mesh membership changes while the daemon runs.
MaxMeshChanges == 1

\* --------------------------------------------------------------- constants
\* main.go:21  CloudflareSyncDNSComment = "_tailscale"
CloudflareSyncDNSComment == "_tailscale"
\* main.go:22  CloudflareDomainSuffix = ".int"
CloudflareDomainSuffix == <<".", "i", "n", "t">>
\* main.go:104 PerPage: 1000, scaled down so that a zone of a few records
\* spans more than one page.
PerPage == 2
\* main.go:135 TTL: 1
RecordTTL == 1

\* ------------------------------------------------------------ pure helpers
\* strings.ToLower on the alphabet used here.
ToLower(s) ==
  [i \in 1..Len(s) |->
     CASE s[i] = "A" -> "a"
       [] s[i] = "B" -> "b"
       [] s[i] = "C" -> "c"
       [] OTHER -> s[i]]

\* strings.Split(s, sep): the segments of s between occurrences of sep; the
\* result always has at least one segment (Split("", ".") is [""]).
RECURSIVE Split(_, _)
Split(s, sep) ==
  IF \A i \in 1..Len(s) : s[i] # sep
    THEN <<s>>
    ELSE LET k == CHOOSE i \in 1..Len(s) :
                    s[i] = sep /\ \A j \in 1..(i - 1) : s[j] # sep
         IN  <<SubSeq(s, 1, k - 1)>> \o Split(SubSeq(s, k + 1, Len(s)), sep)

\* main.go:57-64
getName(name) ==
  LET s == Split(ToLower(name), ".")
  IN  IF Len(s) > 0 THEN s[1] ELSE <<>>

\* netip.Addr.Is4
Is4(ip) == ip.fam = 4

\* The inner loops of main.go:80-84 and 93-97 applied to one entry: every
\* IPv4 address of the list is assigned to the map slot in turn, so the slot
\* ends with the last one.  NoAddr when the list holds no IPv4 address.
NoAddr == "none"
RECURSIVE AssignIPv4(_, _)
AssignIPv4(ips, cur) ==
  IF ips = <<>> THEN cur
  ELSE AssignIPv4(Tail(ips), IF Is4(Head(ips)) THEN Head(ips).addr ELSE cur)

HasIPv4(entry) == AssignIPv4(entry.TailscaleIPs, NoAddr) # NoAddr

\* ------------------------------------------------------------- input sets
Ip4a == [fam |-> 4, addr |-> "100.64.0.1"]
Ip4b == [fam |-> 4, addr |-> "100.64.0.2"]
Ip6 == [fam |-> 6, addr |-> "fd7a::1"]

HostA == <<"A", ".", "t", "s">>
HostB == <<"B", ".", "t", "s">>
HostC == <<"c">>
HostCLong == <<"c", ".", "t", "s">>
HostDot == <<".">>

\* Self entries of a status (ipnstate.Status.Self).
SelfEntries ==
  { [DNSName |-> HostA, TailscaleIPs |-> <<Ip6, Ip4a>>] }

\* Peer entries of a status (values of ipnstate.Status.Peer).
PeerEntries ==
  { [DNSName |-> HostB, TailscaleIPs |-> <<Ip4b>>],
    [DNSName |-> HostC, TailscaleIPs |-> <<Ip6>>],
    [DNSName |-> HostCLong, TailscaleIPs |-> <<Ip4a, Ip4b>>],
    [DNSName |-> HostDot, TailscaleIPs |-> <<Ip4b>>] }

Statuses ==
  { [Self |-> s, Peer |-> p] :
      s \in SelfEntries,
      p \in { q \in SUBSET PeerEntries : Cardinality(q) <= MaxPeers } }

\* Records the zone may hold at startup.
Rec(id, name, content, comment) ==
  [ID |-> id, Type |-> "A", Name |-> name, Content |-> content,
   Comment |-> comment, TTL |-> RecordTTL]

InitRecords ==
  { Rec(1, <<"a", ".", "i", "n", "t">>, "100.64.0.9", CloudflareSyncDNSComment),
    Rec(2, <<"c", ".", "i", "n", "t">>, "100.64.0.1", CloudflareSyncDNSComment),
    Rec(3, <<"c", ".", "l", "a", "n">>, "100.64.0.1", CloudflareSyncDNSComment),
    Rec(4, <<"d", ".", "i", "n", "t">>, "10.0.0.5", "") }

\* The provider numbers created records after the ones it already holds.
FirstFreeID == 1 + Cardinality(InitRecords)

VARIABLES
  mesh,         \* the mesh membership as tailscaled reports it now
  meshChanges,  \* number of membership changes so far
  st,           \* main.go:29  the status read by init()
  zone,         \* the records of the Cloudflare zone
  nextID,       \* identifier the provider gives the next created record
  cancelled,    \* main.go:27  ctx is done (SIGTERM / SIGINT received)
  tickPending,  \* a tick is buffered in ticker.C
  pc,           \* position of main: "select", "list", "loop", "stopped"
  active,       \* number of calls of sync that have not returned
  cycle,        \* number of calls of sync started
  startMesh,    \* the mesh membership when the current cycle started
  zoneAtStart,  \* the zone when the current cycle started
  ts,           \* main.go:70
  tsMap,        \* main.go:69
  listState,    \* outcome of ListDNSRecords in the current cycle
  records,      \* main.go:100 the records ListDNSRecords returned
  cf,           \* main.go:73
  cfMap,        \* main.go:72
  needToSync,   \* main.go:118
  todo,         \* names of the range loop of main.go:123 not yet visited
  calls,        \* per name, the create / delete calls the current cycle issued
  prev          \* summary of the previous cycle

vars ==
  <<mesh, meshChanges, st, zone, nextID, cancelled, tickPending, pc, active,
    cycle, startMesh, zoneAtStart, ts, tsMap, listState, records, cf, cfMap,
    needToSync, todo, calls, prev>>

schedVars == <<cancelled, tickPending, pc, active, cycle>>
syncVars ==
  <<startMesh, zoneAtStart, ts, tsMap, listState, records, cf, cfMap,
    needToSync, todo, calls, prev>>

EmptyMap == [n \in {} |-> NoAddr]
NoCalls == [n \in {} |-> <<>>]
NoCycle == [ran |-> FALSE]

\* ------------------------------------------------------ sync: the snapshots
\* The entries sync reads: self first, then the peers (main.go:75-99).
Entries(status) == {status.Self} \cup status.Peer

\* Variant of MeshNames: ts.Add moved under the Is4 test, so that only the
\* names that get an address are added.
MeshNamesWithAddress(status) ==
  { getName(e.DNSName) :
      e \in { x \in Entries(status) : getName(x.DNSName) # <<>> /\ HasIPv4(x) } }

\* Variant of MeshNames: the test name != "" of main.go:77 and 90 is
\* missing.
MeshNamesUnguarded(status) ==
  { getName(e.DNSName) : e \in Entries(status) }

\* main.go:76-78 and 89-91: the names added to ts.
MeshNames(status) ==
  { getName(e.DNSName) : e \in { x \in Entries(status) : getName(x.DNSName) # <<>> } }

\* The values tsMap[name] can end with (main.go:75-99).  Self is visited
\* first and the peers after it in the order of a Go map range, which is
\* unspecified: the slot holds the address of the last visited entry of
\* that name that has an IPv4 address.
AddrCandidates(status, name) ==
  LET peers == { p \in status.Peer : getName(p.DNSName) = name /\ HasIPv4(p) }
  IN  IF peers # {}
        THEN { AssignIPv4(p.TailscaleIPs, NoAddr) : p \in peers }
        ELSE IF getName(status.Self.DNSName) = name /\ HasIPv4(status.Self)
               THEN { AssignIPv4(status.Self.TailscaleIPs, NoAddr) }
               ELSE {}

TsMaps(status) ==
  LET dom == { n \in MeshNames(status) : AddrCandidates(status, n) # {} }
  IN  { f \in [dom -> { Ip4a.addr, Ip4b.addr }] :
          \A n \in dom : f[n] \in AddrCandidates(status, n) }

\* main.go:100-106: one ListDNSRecords call filtered by comment with PerPage
\* set and the returned ResultInfo dropped: the call returns one page, that
\* is all matching records when they fit in a page and PerPage of them (in
\* the provider's order, which the program does not choose) otherwise.
\* Variant of Annotated: the Comment filter of main.go:101 is missing, the
\* listing returns records of every comment.
AnyComment(z) == z

Annotated(z) == { r \in z : r.Comment = CloudflareSyncDNSComment }

ListDNSRecords(z) ==
  IF Cardinality(Annotated(z)) <= PerPage
    THEN { Annotated(z) }
    ELSE { page \in SUBSET Annotated(z) : Cardinality(page) = PerPage }

\* main.go:111-117
CfNames(recs) ==
  { getName(r.Name) : r \in { x \in recs : getName(x.Name) # <<>> } }

\* The values cfMap can end with: for a name carried by several records the
\* slot holds the ID of the one that comes last in the returned slice.
CfMaps(recs) ==
  { f \in [CfNames(recs) -> { r.ID : r \in recs }] :
      \A n \in CfNames(recs) :
        \E r \in recs : getName(r.Name) = n /\ f[n] = r.ID }

\* Variant of SymmetricDifference: ts.Difference(cf), the names of one side.
DifferenceOnly(a, b) == a \ b

\* Variant of SymmetricDifference: cf.Difference(ts), the names of the other
\* side only.
ReverseDifference(a, b) == b \ a

\* Variant of SymmetricDifference: every name of either side.
UnionOf(a, b) == a \cup b

\* main.go:118 and 123: ts.SymmetricDifference(cf)
SymmetricDifference(a, b) == (a \ b) \cup (b \ a)

\* -------------------------------------------------------------------- Init
\* The state when main() is entered: init() has read the status once
\* (main.go:41) and built the context; no cycle has run.
Init ==
  /\ mesh \in Statuses
  /\ st = mesh
  /\ meshChanges = 0
  /\ zone \in { z \in SUBSET InitRecords : Cardinality(z) <= MaxInitRecords }
  /\ nextID = FirstFreeID
  /\ cancelled = FALSE
  /\ tickPending = FALSE
  /\ pc = "select"
  /\ active = 0
  /\ cycle = 0
  /\ startMesh = mesh
  /\ zoneAtStart = zone
  /\ ts = {}
  /\ tsMap = EmptyMap
  /\ listState = "none"
  /\ records = {}
  /\ cf = {}
  /\ cfMap = EmptyMap
  /\ needToSync = {}
  /\ todo = {}
  /\ calls = NoCalls
  /\ prev = NoCycle

\* ------------------------------------------------------------- environment
\* A node joins or leaves the mesh.
MeshChange ==
  /\ pc # "stopped"
  /\ meshChanges < MaxMeshChanges
  /\ \E p \in PeerEntries :
       /\ mesh' = [mesh EXCEPT !.Peer =
                     IF p \in mesh.Peer THEN mesh.Peer \ {p} ELSE mesh.Peer \cup {p}]
       /\ Cardinality(mesh'.Peer) <= MaxPeers
  /\ meshChanges' = meshChanges + 1
  /\ UNCHANGED <<st, zone, nextID>>
  /\ UNCHANGED schedVars
  /\ UNCHANGED syncVars

\* main.go:37: SIGTERM or SIGINT arrives and ctx becomes done.
Cancel ==
  /\ pc # "stopped"
  /\ ~cancelled
  /\ cancelled' = TRUE
  /\ UNCHANGED <<mesh, meshChanges, st, zone, nextID, tickPending, pc, active, cycle>>
  /\ UNCHANGED syncVars

\* main.go:162: the ticker fires; ticker.C buffers one tick, a tick that
\* finds the buffer full is dropped.
Tick ==
  /\ pc # "stopped"
  /\ ~tickPending
  /\ tickPending' = TRUE
  /\ UNCHANGED <<mesh, meshChanges, st, zone, nextID, cancelled, pc, active, cycle>>
  /\ UNCHANGED syncVars

\* --------------------------------------------------------------- scheduler
\* Variant of AtSelect: the tick is taken wherever main is, as it would be
\* with sync started in a goroutine of its own.
AtAnyPoint == pc # "stopped"

\* main.go:164-167: sync is called from the select of the single loop of
\* main, so a tick is taken only while main waits in the select.
AtSelect == pc = "select"

\* main.go:168 ticker.Reset after sync returned.  A tick buffered while sync
\* ran stays in ticker.C with the timers of Go before 1.23 and is discarded
\* by Reset with the timers of Go 1.23 and later.
ResetOutcomes == IF tickPending THEN {TRUE, FALSE} ELSE {FALSE}

\* sync returns to main, which resets the ticker and selects again
\* (main.go:109, 121, 157 then 168).
Return ==
  /\ pc' = "select"
  /\ active' = active - 1
  /\ tickPending' \in ResetOutcomes

\* What a cycle leaves for the next one to be compared with.
Summary ==
  IF cycle = 0 THEN NoCycle
  ELSE [ran |-> TRUE, listState |-> listState, ts |-> ts, cf |-> cf,
        needToSync |-> needToSync, calls |-> calls, mesh |-> startMesh]

\* main.go:166-167 and 66-99: the select takes the tick and calls sync,
\* which builds ts and tsMap from the status st.  The select takes the tick
\* also when ctx is done at the same time: Go picks among ready cases at
\* random.
MainSelectTick ==
  /\ AtSelect
  /\ tickPending
  /\ cycle < MaxCycles
  /\ tickPending' = FALSE
  /\ pc' = "list"
  /\ active' = active + 1
  /\ cycle' = cycle + 1
  /\ prev' = Summary
  /\ startMesh' = mesh
  /\ zoneAtStart' = zone
  /\ ts' = MeshNames(st)
  /\ tsMap' \in TsMaps(st)
  /\ listState' = "pending"
  /\ records' = {}
  /\ cf' = {}
  /\ cfMap' = EmptyMap
  /\ needToSync' = {}
  /\ todo' = {}
  /\ calls' = NoCalls
  /\ UNCHANGED <<mesh, meshChanges, st, zone, nextID, cancelled>>

\* Variant of MainSelectDone: the case leaves the select but not the for
\* loop (break in place of return), so main selects again.
MainSelectDoneLoops ==
  /\ pc = "select"
  /\ cancelled
  /\ pc' = "select"
  /\ UNCHANGED <<mesh, meshChanges, st, zone, nextID, cancelled, tickPending, active, cycle>>
  /\ UNCHANGED syncVars

\* main.go:169-171
MainSelectDone ==
  /\ pc = "select"
  /\ cancelled
  /\ pc' = "stopped"
  /\ UNCHANGED <<mesh, meshChanges, st, zone, nextID, cancelled, tickPending, active, cycle>>
  /\ UNCHANGED syncVars

\* ------------------------------------------------------------------- sync
\* Outcomes of a call of the provider's API made with ctx: it fails when ctx
\* is already done, and may succeed or fail otherwise.  A call that fails
\* returns an error and leaves the zone as it was.
CallOutcomes == IF cancelled THEN {FALSE} ELSE {TRUE, FALSE}

\* Variant of ListFailed: the error is logged and the return of main.go:109
\* is missing, so the cycle goes on with no records.
ListFailedGoesOn ==
  /\ listState' = "failed"
  /\ records' = {}
  /\ cf' = {}
  /\ cfMap' = EmptyMap
  /\ needToSync' = ts
  /\ calls' = [n \in ts |-> <<>>]
  /\ todo' = ts
  /\ IF ts = {} THEN Return ELSE pc' = "loop" /\ UNCHANGED <<active, tickPending>>

\* main.go:107-110: what sync does when ListDNSRecords failed.
ListFailed ==
  /\ listState' = "failed"
  /\ Return
  /\ UNCHANGED <<records, cf, cfMap, needToSync, todo, calls>>

\* main.go:111-122: what sync does with the returned records.
ListSucceeded(page) ==
  /\ listState' = "ok"
  /\ records' = page
  /\ cf' = CfNames(page)
  /\ cfMap' \in CfMaps(page)
  /\ needToSync' = SymmetricDifference(ts, CfNames(page))
  /\ calls' = [n \in SymmetricDifference(ts, CfNames(page)) |-> <<>>]
  /\ IF SymmetricDifference(ts, CfNames(page)) = {}
       THEN /\ Return
            /\ todo' = {}
       ELSE /\ pc' = "loop"
            /\ todo' = SymmetricDifference(ts, CfNames(page))
            /\ UNCHANGED <<active, tickPending>>

\* main.go:100-122
SyncList ==
  /\ pc = "list"
  /\ \E ok \in CallOutcomes :
       IF ok THEN \E page \in ListDNSRecords(zone) : ListSucceeded(page)
             ELSE ListFailed
  /\ UNCHANGED <<mesh, meshChanges, st, zone, nextID, cancelled, cycle>>
  /\ UNCHANGED <<startMesh, zoneAtStart, ts, tsMap, prev>>

\* The parameters of the CreateDNSRecord call of main.go:130-136.
CreateParams(name) ==
  [Type |-> "A", Name |-> name \o CloudflareDomainSuffix, Content |-> tsMap[name],
   Comment |-> CloudflareSyncDNSComment, TTL |-> RecordTTL]

NoParams == [Type |-> "", Name |-> <<>>, Content |-> "", Comment |-> "", TTL |-> 0]

CreateCall(name, ok) ==
  [op |-> "create", name |-> name, id |-> 0, params |-> CreateParams(name), ok |-> ok]

DeleteCall(name, ok) ==
  [op |-> "delete", name |-> name, id |-> cfMap[name], params |-> NoParams, ok |-> ok]

\* The provider stores the record of a successful create under a fresh ID.
Created(z, name) ==
  z \cup { [ID |-> nextID] @@ CreateParams(name) }

\* The provider drops the record of a successful delete.
Deleted(z, id) == { r \in z : r.ID # id }

\* main.go:125-128: the name has no slot in tsMap, the iteration ends.
TsBranchSkips(name) == name \notin DOMAIN tsMap

\* Variant of AfterFailure: the name of the failed call stays among the names
\* to visit, so the call is made again in the same cycle.
RetryAfterFailure(rest) == todo

\* Variant of AfterFailure: return in place of continue.
ReturnOnFailure(rest) == {}

\* main.go:137-140 and 150-153: a failed call ends the iteration; the loop
\* goes on with the names that remain.
AfterFailure(rest) == rest

\* One iteration of the loop of main.go:123-156 for name, with okC the
\* outcome of the create call and okD that of the delete call, if made.
Iteration(name, okC, okD) ==
  LET inTs == name \in ts
      creates == inTs /\ ~TsBranchSkips(name)
      goesOn == ~inTs \/ (creates /\ okC)
      deletes == goesOn /\ name \in cf /\ name \in DOMAIN cfMap
      zone1 == IF creates /\ okC THEN Created(zone, name) ELSE zone
      calls1 == IF creates THEN <<CreateCall(name, okC)>> ELSE <<>>
      calls2 == IF deletes THEN <<DeleteCall(name, okD)>> ELSE <<>>
      failed == (creates /\ ~okC) \/ (deletes /\ ~okD)
  IN  /\ zone' = IF deletes /\ okD THEN Deleted(zone1, cfMap[name]) ELSE zone1
      /\ calls' = [calls EXCEPT ![name] = @ \o calls1 \o calls2]
      /\ nextID' = IF creates /\ okC THEN nextID + 1 ELSE nextID
      /\ todo' = IF failed THEN AfterFailure(todo \ {name}) ELSE todo \ {name}

\* main.go:123-156: the loop visits the names of the difference in the
\* order of ToSlice, which is unspecified.
SyncItem ==
  /\ pc = "loop"
  /\ \E name \in todo, okC \in CallOutcomes, okD \in CallOutcomes :
       Iteration(name, okC, okD)
  /\ UNCHANGED <<mesh, meshChanges, st>>
  /\ UNCHANGED schedVars
  /\ UNCHANGED <<startMesh, zoneAtStart, ts, tsMap, listState, records, cf, cfMap,
                 needToSync, prev>>

\* main.go:157 then 168: the loop is over, sync returns.
SyncReturn ==
  /\ pc = "loop"
  /\ todo = {}
  /\ Return
  /\ UNCHANGED <<mesh, meshChanges, st, zone, nextID, cancelled, cycle>>
  /\ UNCHANGED syncVars

\* The program and the signals and ticks it reacts to.  The program reads
\* the mesh membership in init() only (main.go:41), so under Spec the
\* membership stays what init() read; SpecMesh adds its changes.
Next ==
  \/ Cancel
  \/ Tick
  \/ MainSelectTick
  \/ MainSelectDone
  \/ SyncList
  \/ SyncItem
  \/ SyncReturn

Spec == Init /\ [][Next]_vars

NextMesh ==
  \/ Next
  \/ MeshChange

SpecMesh == Init /\ [][NextMesh]_vars

\* The scheduling the runtime gives the program.  Every call of the
\* provider's API returns, so a cycle that has started goes on to its end
\* (weak fairness of the steps of sync).  A select with several ready cases
\* picks one at random, so the ctx.Done() case, ready at every select once
\* ctx is done, is taken in the end (strong fairness of MainSelectDone).
Fairness ==
  /\ WF_vars(SyncList)
  /\ WF_vars(SyncItem)
  /\ WF_vars(SyncReturn)
  /\ SF_vars(MainSelectDone)

\* The scheduler is the same whatever the zone holds when the daemon
\* starts: the behaviours checked for its progress start from a zone of at
\* most one record.
InitFair == Init /\ Cardinality(zone) <= 1

SpecFair == InitFair /\ [][Next]_vars /\ Fairness

\* ------------------------------------------------------------- properties
\* The calls of the current cycle, whatever the name.
IssuedFor(n, op) ==
  n \in DOMAIN calls /\ \E i \in 1..Len(calls[n]) : calls[n][i].op = op

IssuedNames(op) == { n \in DOMAIN calls : IssuedFor(n, op) }

NoCallFor(n) == n \notin DOMAIN calls \/ calls[n] = <<>>

AllCallsOk ==
  \A n \in DOMAIN calls : \A i \in 1..Len(calls[n]) : calls[n][i].ok

SomeCallFailed(n) ==
  n \in DOMAIN calls /\ \E i \in 1..Len(calls[n]) : ~calls[n][i].ok

\* sync has returned from a cycle whose listing succeeded.
CycleCompleted == cycle >= 1 /\ pc \in {"select", "stopped"} /\ listState = "ok"

\* The names of the mesh directory that have an IPv4 address.
Addressed == DOMAIN tsMap

\* C1: in a cycle whose listing and whose create and delete calls all
\* succeed, a create is issued for exactly the names of the mesh directory
\* that have an IPv4 address and are not in the managed directory, a delete
\* for exactly the names of the managed directory that are not in the mesh
\* directory, and no call for a name that is in both.
C1_Convergence ==
  (CycleCompleted /\ AllCallsOk) =>
    /\ IssuedNames("create") = (ts \ cf) \cap Addressed
    /\ IssuedNames("delete") = cf \ ts
    /\ \A n \in ts \cap cf : NoCallFor(n)

C1_Witness ==
  /\ CycleCompleted /\ AllCallsOk
  /\ IssuedNames("create") # {}
  /\ IssuedNames("delete") # {}
  /\ ts \cap cf # {}

\* C2: every cycle builds its mesh directory from the mesh membership as it
\* is when the cycle starts.
C2_MeshRebuiltEachCycle ==
  pc \in {"list", "loop"} => ts = MeshNames(startMesh)

\* C3: a cycle whose listing fails issues no create and no delete call and
\* leaves the zone as it found it, and the scheduler is back in its select,
\* waiting for the next tick (or stopped, if cancellation arrived).
C3_ListFailureAborts ==
  listState = "failed" =>
    /\ \A n \in ts \cup cf : NoCallFor(n)
    /\ zone = zoneAtStart
    /\ active = 0
    /\ pc = "select" \/ (cancelled /\ pc = "stopped")

C3_Witness ==
  /\ listState = "failed"
  /\ ~cancelled
  /\ pc = "select"
  /\ SymmetricDifference(ts, CfNames(Annotated(zone))) # {}

\* C4: the failure of the call for one name keeps no other name of the
\* reconciliation set from getting its call: when sync has returned, every
\* name of the set that has an address got its create and every name of the
\* managed side its delete, whichever calls failed.
C4_FailureIsolation ==
  CycleCompleted =>
    /\ todo = {}
    /\ \A n \in needToSync :
         /\ (n \in ts /\ n \in Addressed) => IssuedFor(n, "create")
         /\ n \in cf => IssuedFor(n, "delete")

C4_Witness ==
  /\ CycleCompleted
  /\ \E n \in needToSync, m \in needToSync :
       /\ n # m
       /\ SomeCallFailed(n)
       /\ ~NoCallFor(m)
       /\ ~SomeCallFailed(m)

\* A call of kind op for name n failed in the previous cycle.
PrevFailed(n, op) ==
  /\ n \in DOMAIN prev.calls
  /\ \E i \in 1..Len(prev.calls[n]) :
       prev.calls[n][i].op = op /\ ~prev.calls[n][i].ok

PrevAllCallsOk ==
  \A n \in DOMAIN prev.calls : \A i \in 1..Len(prev.calls[n]) : prev.calls[n][i].ok

\* C5: a call that failed for a name in one cycle is issued again for that
\* name, and the name is again in the reconciliation set, in the next cycle
\* whose listing succeeds, the mesh membership being the same for both.
C5_RetryNextCycle ==
  (CycleCompleted /\ prev.ran /\ prev.listState = "ok" /\ prev.mesh = startMesh) =>
    \A n \in DOMAIN prev.calls : \A op \in {"create", "delete"} :
      PrevFailed(n, op) => (n \in needToSync /\ IssuedFor(n, op))

\* C6: a cycle that follows a cycle whose listing and calls all succeeded,
\* with no change of the mesh membership in between, has an empty
\* reconciliation set.
C6_Idempotence ==
  (/\ listState = "ok"
   /\ prev.ran /\ prev.listState = "ok" /\ PrevAllCallsOk
   /\ prev.mesh = startMesh)
    => needToSync = {}

\* The status st has an entry named x and no entry named x has an IPv4
\* address.
NamedWithoutIPv4(x) ==
  /\ x # <<>>
  /\ \E e \in Entries(st) : getName(e.DNSName) = x
  /\ \A e \in Entries(st) : getName(e.DNSName) = x => ~HasIPv4(e)

C8_AllPagesListed ==
  listState = "ok" =>
    \A r \in Annotated(zoneAtStart) :
      getName(r.Name) # <<>> => getName(r.Name) \in DOMAIN cfMap

\* C9: once ctx is done while main waits in its select, no further cycle
\* starts, a pending tick notwithstanding.
C9_CancelPreemptsTick ==
  [][(cancelled /\ pc = "select") => pc' # "list"]_vars

\* C10: at most one call of sync is executing, and it is executing exactly
\* while main is inside sync.
C10_SingleActiveCycle ==
  /\ active \in {0, 1}
  /\ active = 1 <=> pc \in {"list", "loop"}

C10_Witness ==
  /\ active = 1
  /\ pc = "loop"
  /\ tickPending
  /\ cycle < MaxCycles

\* What main touches once it has returned: nothing.
StoppedStep ==
  pc = "stopped" =>
    /\ pc' = "stopped"
    /\ cycle' = cycle
    /\ active' = active
    /\ listState' = listState
    /\ calls' = calls
    /\ zone' = zone

\* C11: once ctx is done the scheduler reaches Stopped in the end, every
\* call of the provider returning; and Stopped is terminal: from then on no
\* cycle starts and no list, create or delete call is issued.
C11_StopsAndStaysStopped ==
  /\ cancelled ~> (pc = "stopped")
  /\ [][StoppedStep]_vars

C11_Witness ==
  /\ pc = "stopped"
  /\ tickPending
  /\ cycle >= 1
  /\ cycle < MaxCycles

\* The listed records whose name is in both directories.
RecordsInBoth == { r \in records : getName(r.Name) \in ts \cap cf }

\* C12: for a name that is in the mesh directory and in the managed
\* directory the cycle issues no create and no delete call, and the listed
\* records of that name stay in the zone as they were listed, whatever their
\* content.
C12_NoUpdateInPlace ==
  listState = "ok" =>
    /\ \A n \in ts \cap cf : NoCallFor(n)
    /\ \A r \in RecordsInBoth : r \in zone

C12_Witness ==
  /\ CycleCompleted
  /\ \E r \in RecordsInBoth :
       /\ getName(r.Name) \in DOMAIN tsMap
       /\ r.Content # tsMap[getName(r.Name)]
       /\ r \in zone
  /\ \E n \in DOMAIN calls : calls[n] # <<>>

\* The lowercase first segment of a name, stated without Split: the longest
\* prefix that holds no dot, each capital replaced by its small letter.
LowerOf(c) ==
  CASE c = "A" -> "a"
    [] c = "B" -> "b"
    [] c = "C" -> "c"
    [] OTHER -> c

FirstSegmentLen(x) ==
  CHOOSE k \in 0..Len(x) :
    /\ \A i \in 1..k : x[i] # "."
    /\ k = Len(x) \/ x[k + 1] = "."

LowerFirstSegment(x) == [i \in 1..FirstSegmentLen(x) |-> LowerOf(x[i])]

\* Names the normalizer is applied to besides those of the mesh and of the
\* zone: the empty name, the lone dot, names of several mixed-case segments,
\* a name that starts and a name that ends with a dot.
NormalizerInputs ==
  { <<>>, <<".">>, <<"A", "b", ".", "C", ".", "i", "n", "t">>, <<"a">>,
    <<".", "a">>, <<"A", "B", ".">>, <<"C", ".", ".", "a">> }

NamesSeen ==
  NormalizerInputs \cup { e.DNSName : e \in Entries(st) } \cup { r.Name : r \in zone }

\* C13: getName returns the lowercase first dot-separated segment of every
\* input, the empty string for "" and "."; and the empty name is in neither
\* directory and gets no create and no delete call, also when an entry of
\* the mesh or a listed record normalizes to it.
C13_NormalizerAndEmptyNames ==
  /\ \A x \in NamesSeen : getName(x) = LowerFirstSegment(x)
  /\ getName(<<>>) = <<>>
  /\ getName(<<".">>) = <<>>
  /\ getName(<<"A", "b", ".", "C", ".", "i", "n", "t">>) = <<"a", "b">>
  /\ CfNames({ Rec(1, <<".", "i", "n", "t">>, "100.64.0.9", CloudflareSyncDNSComment) }) = {}
  /\ <<>> \notin ts
  /\ <<>> \notin DOMAIN tsMap
  /\ <<>> \notin cf
  /\ <<>> \notin DOMAIN cfMap
  /\ <<>> \notin needToSync
  /\ <<>> \notin DOMAIN calls

C13_Witness ==
  /\ CycleCompleted
  /\ \E e \in Entries(st) : getName(e.DNSName) = <<>> /\ HasIPv4(e)
  /\ \E n \in DOMAIN calls : calls[n] # <<>>

\* The names that are in exactly one of two sets.
InExactlyOne(a, b) == { n \in a \cup b : (n \in a) # (n \in b) }

\* The name sets the program holds, and the empty set.
NameSetsSeen == { ts, cf, DOMAIN tsMap, {} }

\* C14: the difference computed from (A, B) is the one computed from (B, A)
\* and holds exactly the names that are in exactly one of A and B, for the
\* name sets of every cycle; and the reconciliation set of a cycle is that
\* difference of its two directories, taken either way round.
C14_DiffSymmetric ==
  /\ \A a \in NameSetsSeen, b \in NameSetsSeen :
       /\ SymmetricDifference(a, b) = SymmetricDifference(b, a)
       /\ SymmetricDifference(a, b) = InExactlyOne(a, b)
  /\ listState = "ok" =>
       /\ needToSync = SymmetricDifference(cf, ts)
       /\ needToSync = InExactlyOne(ts, cf)

C14_Witness ==
  /\ pc = "loop"
  /\ todo = needToSync
  /\ ts \ cf # {}
  /\ cf \ ts # {}
  /\ ts \cap cf # {}

\* The first IPv4 address of an address list that holds one.
FirstIPv4(ips) ==
  LET k == CHOOSE i \in 1..Len(ips) :
             Is4(ips[i]) /\ \A j \in 1..(i - 1) : ~Is4(ips[j])
  IN  ips[k].addr

\* The entries whose canonical name no other entry shares: the slot of such
\* a name is written from that entry alone.
SoleEntries ==
  { e \in Entries(st) :
      /\ getName(e.DNSName) # <<>>
      /\ \A f \in Entries(st) : getName(f.DNSName) = getName(e.DNSName) => f = e }

\* C15: the address a cycle records for an entry of nonempty canonical name
\* is the first IPv4 address of the entry's address list, also when the list
\* holds several.
C15_FirstIPv4Recorded ==
  cycle >= 1 =>
    \A e \in SoleEntries :
      (\E i \in 1..Len(e.TailscaleIPs) : Is4(e.TailscaleIPs[i])) =>
        /\ getName(e.DNSName) \in DOMAIN tsMap
        /\ tsMap[getName(e.DNSName)] = FirstIPv4(e.TailscaleIPs)

\* C16: in one cycle a name gets at most one create or delete call: never
\* both, and never a second one, whether the first succeeded or failed.
C16_OneCallPerName ==
  \A n \in DOMAIN calls :
    /\ Len(calls[n]) <= 1
    /\ ~(IssuedFor(n, "create") /\ IssuedFor(n, "delete"))

C16_Witness ==
  /\ CycleCompleted
  /\ \E n \in DOMAIN calls, m \in DOMAIN calls :
       /\ calls[n] # <<>> /\ calls[n][1].op = "create" /\ ~calls[n][1].ok
       /\ calls[m] # <<>> /\ calls[m][1].op = "delete" /\ calls[m][1].ok

\* C17: once ctx is done the loop of a running cycle starts no create and no
\* delete call for the names that remain.
C17_CancelStopsLoop ==
  [][(cancelled /\ pc = "loop") => calls' = calls]_vars

\* C18: a cycle's return leaves no tick behind it in ticker.C.  A tick that
\* is in the channel when main selects again fired before the return, so the
\* cycle it starts comes less than one period after that return; the ticks
\* of the reset ticker come a full period after it.
C18_NoStaleTickAtReturn ==
  [][(pc \in {"list", "loop"} /\ pc' = "select") => ~tickPending']_vars

\* The delete calls of the running cycle.
DeleteCalls ==
  { c \in UNION { { calls[n][i] : i \in DOMAIN calls[n] } : n \in DOMAIN calls } :
      c.op = "delete" }

\* C19: a delete call names the ID of a record that the listing of the same
\* cycle returned, and that record carries the management comment; a record
\* of the zone that does not carry it is still in the zone, whatever its
\* name.
C19_DeletesOnlyListedManaged ==
  /\ \A c \in DeleteCalls :
       \E r \in records :
         /\ r.ID = c.id
         /\ r.Comment = CloudflareSyncDNSComment
         /\ r \in zoneAtStart
  /\ \A r \in zoneAtStart : r.Comment # CloudflareSyncDNSComment => r \in zone

C19_Witness ==
  /\ CycleCompleted
  /\ \E c \in DeleteCalls : c.ok /\ c.id \notin { r.ID : r \in zone }
  /\ \E r \in zone :
       /\ r.Comment # CloudflareSyncDNSComment
       /\ getName(r.Name) \notin ts

\* The create calls of a map of calls, each with the name it was made for.
CreateCallsOf(cs) ==
  { c \in UNION { { cs[n][i] : i \in DOMAIN cs[n] } : n \in DOMAIN cs } :
      c.op = "create" }

\* Each create call of the running cycle asks for an A record named by the
\* canonical name followed by the domain suffix, holding the address the
\* cycle recorded for the name, and carrying the management comment.
CreateAsksManagedRecord ==
  \A c \in CreateCallsOf(calls) :
    /\ c.name \in DOMAIN tsMap
    /\ c.params.Type = "A"
    /\ c.params.Name = c.name \o CloudflareDomainSuffix
    /\ c.params.Content = tsMap[c.name]
    /\ c.params.Comment = CloudflareSyncDNSComment
    /\ getName(c.params.Name) = c.name

\* The record of each successful create of the previous cycle is among the
\* records the running cycle listed, under the canonical name of the call.
CreatedListedNext ==
  (prev.ran /\ listState = "ok") =>
    \A c \in CreateCallsOf(prev.calls) :
      c.ok =>
        /\ c.name \in cf
        /\ \E r \in records :
             /\ r.Name = c.params.Name
             /\ r.Content = c.params.Content
             /\ r.Comment = CloudflareSyncDNSComment

\* C20: a create call for name n asks for a record of type A, named n
\* followed by the domain suffix, whose content is the address recorded for
\* n and which carries the management comment, and the record it creates is
\* listed as managed under n by the next cycle.
C20_CreatedAsManaged ==
  /\ CreateAsksManagedRecord
  /\ CreatedListedNext

====
